---- MODULE Spec2Model ----
(***************************************************************************)
(* decomment.js: removal of comment ranges from JavaScript / TypeScript    *)
(* source text (src/src/index.js).                                         *)
(*                                                                         *)
(* A source text is a sequence of one-character strings.  A JavaScript     *)
(* value that may or may not be a number (a comment bound) is a record     *)
(* [t, n]; an optional value (a possibly-undefined option) is a record     *)
(* [defined, value].                                                       *)
(***************************************************************************)
EXTENDS Integers, Sequences, FiniteSets, TLC

----------------------------------------------------------------------------
(* Bounds of the model *)

MaxLen == 2
MaxComments == 2
MaxSearchComments == 1
MaxRanges == 2
MaxFileComments == 1

Alphabet == {"a", "b"}
DistinctAlphabet == {"a", "b", "c", "d"}
FileNames == {"f.js"}
Messages == {"m1", "m2"}

----------------------------------------------------------------------------
(* JavaScript values *)

Num(k) == [t |-> "number", n |-> k]
Undef == [t |-> "undefined", n |-> 0]
Some(v) == [defined |-> TRUE, value |-> v]
None(v) == [defined |-> FALSE, value |-> v]

Min(a, b) == IF a < b THEN a ELSE b
Max(a, b) == IF a > b THEN a ELSE b

\* String.prototype.slice(from, to): negative indices count from the end,
\* both are clamped to the length, an empty span gives the empty string.
Slice(s, from, to) ==
  LET len == Len(s)
      f == IF from < 0 THEN Max(len + from, 0) ELSE Min(from, len)
      e == IF to < 0 THEN Max(len + to, 0) ELSE Min(to, len)
  IN SubSeq(s, f + 1, e)

\* String.prototype.slice(from) with the end omitted
SliceFrom(s, from) == Slice(s, from, Len(s))

----------------------------------------------------------------------------
(* Plugin tables, index.js lines 16-57 *)

COMMON_PLUGINS ==
  << "classProperties", "classPrivateProperties", "classPrivateMethods",
     "dynamicImport", "optionalCatchBinding", "optionalChaining",
     "nullishCoalescingOperator", "objectRestSpread", "topLevelAwait",
     "throwExpressions", "numericSeparator", "importMeta",
     "exportDefaultFrom", "doExpressions", "functionBind" >>

LANGUAGE_PLUGIN_SETS ==
  << <<"jsx", "typescript">>, <<"jsx", "flow", "flowComments">>, <<"jsx">>, <<>> >>

\* the first entry stands for ['decorators', { decoratorsBeforeExport: true }]
DECORATOR_PLUGINS == << "decorators", "decorators-legacy" >>

\* the sets pushed by the inner loop for one decorator plugin
SetsForDecorator(decoratorPlugin) ==
  [l \in 1..Len(LANGUAGE_PLUGIN_SETS) |->
     LANGUAGE_PLUGIN_SETS[l] \o <<decoratorPlugin>> \o COMMON_PLUGINS]

RECURSIVE DecoratorLoop(_)
DecoratorLoop(d) ==
  IF d = 0 THEN <<>>
  ELSE DecoratorLoop(d - 1) \o SetsForDecorator(DECORATOR_PLUGINS[d])

buildDefaultPluginSets ==
  DecoratorLoop(Len(DECORATOR_PLUGINS)) \o << COMMON_PLUGINS >>

DEFAULT_PLUGIN_SETS == buildDefaultPluginSets

----------------------------------------------------------------------------
(* removeRanges, index.js lines 290-307 *)

\* variants of the test of line 296: no range is ever skipped; the end of the
\* range is compared instead of its start
RangeNeverSkipped(range, cursor) == FALSE
RangeSkippedByEnd(range, cursor) == range.end.n < cursor

\* line 296: the range starts before the cursor
RangeSkipped(range, cursor) == range.start.n < cursor

\* variant of line 302: the cursor is left at the start of the range
ExciseStepCursorAtStart(source, st, range) ==
  [ output  |-> st.output \o Slice(source, st.cursor, range.start.n),
    removed |-> st.removed + (range.end.n - range.start.n),
    cursor  |-> range.start.n ]

\* lines 300-302: the loop body for a range that is not skipped
ExciseStep(source, st, range) ==
  [ output  |-> st.output \o Slice(source, st.cursor, range.start.n),
    removed |-> st.removed + (range.end.n - range.start.n),
    cursor  |-> range.end.n ]

\* the locals (cursor, removed, output) after the first k iterations
RECURSIVE RemoveLoop(_, _, _)
RemoveLoop(source, ranges, k) ==
  IF k = 0 THEN [output |-> <<>>, removed |-> 0, cursor |-> 0]
  ELSE LET st == RemoveLoop(source, ranges, k - 1)
       IN IF RangeSkipped(ranges[k], st.cursor) THEN st
          ELSE ExciseStep(source, st, ranges[k])

removeRanges(source, ranges) ==
  LET st == RemoveLoop(source, ranges, Len(ranges))
  IN [ output  |-> st.output \o SliceFrom(source, st.cursor),
       removed |-> st.removed ]

----------------------------------------------------------------------------
(* stripCommentsFromCode, index.js lines 232-288 *)

\* line 276: .map(({ start, end }) => ({ start, end }))
MapRanges(comments) ==
  [i \in 1..Len(comments) |-> [start |-> comments[i].start, end |-> comments[i].end]]

\* variant of line 277: the test start < end is missing
IsValidRangeTypeOnly(r) == r.start.t = "number" /\ r.end.t = "number"

\* line 277: the filter predicate
IsValidRange(r) ==
  r.start.t = "number" /\ r.end.t = "number" /\ r.start.n < r.end.n

RECURSIVE FilterRanges(_)
FilterRanges(rs) ==
  IF rs = <<>> THEN <<>>
  ELSE IF IsValidRange(Head(rs)) THEN <<Head(rs)>> \o FilterRanges(Tail(rs))
       ELSE FilterRanges(Tail(rs))

\* line 278: the comparator (a, b) => a.start - b.start
CompareStart(a, b) == a.start.n - b.start.n

\* insertion of r after every element that does not compare greater (stable)
RECURSIVE InsertSorted(_, _)
InsertSorted(sorted, r) ==
  IF sorted = <<>> THEN <<r>>
  ELSE IF CompareStart(Head(sorted), r) > 0 THEN <<r>> \o sorted
       ELSE <<Head(sorted)>> \o InsertSorted(Tail(sorted), r)

\* Array.prototype.sort, which is stable
RECURSIVE SortRanges(_)
SortRanges(rs) ==
  IF rs = <<>> THEN <<>>
  ELSE InsertSorted(SortRanges(SubSeq(rs, 1, Len(rs) - 1)), rs[Len(rs)])

\* lines 275-278
NormalizeRanges(comments) == SortRanges(FilterRanges(MapRanges(comments)))

\* line 265
CommentsOf(ast) == IF ast.commentsIsArray THEN ast.comments ELSE <<>>

\* variant of line 268: the (empty) output accumulator is returned
EmptyResultOfOutput(code) ==
  [code |-> <<>>, commentCount |-> 0, removedChars |-> 0, removedRanges |-> <<>>]

\* lines 267-272
EmptyResult(code) ==
  [code |-> code, commentCount |-> 0, removedChars |-> 0, removedRanges |-> <<>>]

\* variant of line 284: the comments are counted before the filter
ErasedResultCountingComments(code, comments) ==
  LET ranges == NormalizeRanges(comments)
      r == removeRanges(code, ranges)
  IN [code |-> r.output, commentCount |-> Len(comments),
      removedChars |-> r.removed, removedRanges |-> ranges]

\* lines 275-287
ErasedResult(code, comments) ==
  LET ranges == NormalizeRanges(comments)
      r == removeRanges(code, ranges)
  IN [code |-> r.output, commentCount |-> Len(ranges),
      removedChars |-> r.removed, removedRanges |-> ranges]

\* line 266
NoComments(comments) == Len(comments) = 0

\* lines 265-287: the result for a successful parse
ResultForAst(code, ast) ==
  IF NoComments(CommentsOf(ast)) THEN EmptyResult(code)
  ELSE ErasedResult(code, CommentsOf(ast))

\* line 237
FilenameOf(parserOptions) ==
  IF parserOptions.filename.defined THEN parserOptions.filename.value ELSE "unknown"

\* line 239
PluginSetsOf(parserOptions) ==
  IF parserOptions.plugins.defined THEN << parserOptions.plugins.value >>
  ELSE DEFAULT_PLUGIN_SETS

\* line 260: the message of the thrown error, as the parts of the template
ParseErrorMessage(filename, lastError) ==
  << "Failed to parse ", filename, ": ",
     IF lastError.defined THEN lastError.value ELSE "Unknown parser error" >>

----------------------------------------------------------------------------
(* Paths and the file system.  A path is the sequence of its segments, the *)
(* root being << >>; every path of the model is absolute and normalised.   *)
(* A file system maps the paths that exist to their nodes.                 *)

Dirname(p) == SubSeq(p, 1, Len(p) - 1)
Basename(p) == p[Len(p)]
Join(base, relative) == base \o relative
\* path.relative for a path below `from`
Relative(from, to) == SubSeq(to, Len(from) + 1, Len(to))

\* path.extname, on the segments used by the model
ExtNameOf(name) ==
  CASE name \in {"a.js", "l.js", "o.js"} -> ".js"
    [] name = "B.TS" -> ".TS"
    [] name = "n.txt" -> ".txt"
    [] OTHER -> ""

ExtName(p) == IF p = <<>> THEN "" ELSE ExtNameOf(Basename(p))

\* String.prototype.toLowerCase and trim, on the strings used by the model
ToLowerCase(str) ==
  CASE str = ".TS" -> ".ts"
    [] str = "TXT" -> "txt"
    [] OTHER -> str

Trim(str) ==
  CASE str = " " -> ""
    [] str = " TXT" -> "TXT"
    [] OTHER -> str

\* line 348: ext.startsWith('.') ? ext : `.${ext}`
WithDot(ext) ==
  CASE ext = "txt" -> ".txt"
    [] OTHER -> ext

FileNode(text) == [kind |-> "file", text |-> text]
DirNode == [kind |-> "dir", text |-> <<>>]
SymlinkNode == [kind |-> "symlink", text |-> <<>>]
OtherNode == [kind |-> "other", text |-> <<>>]

\* fs.stat: the segments are resolved from the root; a missing one is ENOENT,
\* one that is not a directory and has segments after it is ENOTDIR
RECURSIVE StatFrom(_, _, _)
StatFrom(disk, p, k) ==
  IF k > Len(p) THEN [err |-> "", node |-> IF p = <<>> THEN DirNode ELSE disk[p]]
  ELSE LET prefix == SubSeq(p, 1, k)
       IN IF prefix \notin DOMAIN disk THEN [err |-> "ENOENT", node |-> DirNode]
          ELSE IF k < Len(p) /\ disk[prefix].kind # "dir"
                 THEN [err |-> "ENOTDIR", node |-> DirNode]
                 ELSE StatFrom(disk, p, k + 1)

Stat(disk, p) == StatFrom(disk, p, 1)

\* lines 373-382
statIfExists(disk, fsPath) ==
  LET s == Stat(disk, fsPath)
  IN IF s.err = "ENOENT" THEN [err |-> "", exists |-> FALSE, node |-> s.node]
     ELSE [err |-> s.err, exists |-> s.err = "", node |-> s.node]

\* lines 384-386
pathExists(disk, fsPath) ==
  LET s == statIfExists(disk, fsPath)
  IN [err |-> s.err, exists |-> s.exists]

Prefixes(p) == { SubSeq(p, 1, k) : k \in 1..Len(p) }

\* lines 369-371: fs.mkdir(dirPath, { recursive: true })
ensureDir(disk, dirPath) ==
  IF \E q \in Prefixes(dirPath) : q \in DOMAIN disk /\ disk[q].kind # "dir"
    THEN [err |-> "EEXIST", disk |-> disk]
    ELSE [err |-> "",
          disk |-> [q \in (DOMAIN disk) \cup Prefixes(dirPath) |->
                      IF q \in DOMAIN disk THEN disk[q] ELSE DirNode]]

\* fs.writeFile(destPath, code, 'utf8')
WriteFile(disk, destPath, text) ==
  IF destPath \in DOMAIN disk /\ disk[destPath].kind = "dir"
    THEN [err |-> "EISDIR", disk |-> disk]
    ELSE [err |-> "",
          disk |-> [q \in (DOMAIN disk) \cup {destPath} |->
                      IF q = destPath THEN FileNode(text) ELSE disk[q]]]

\* the order in which fs.readdir lists the entries of a directory
NameOrder == << "a.js", "l.js", "n.txt", "sub", "B.TS", "out", "o.js", "src", "dev" >>

RECURSIVE ReadDirFrom(_, _, _)
ReadDirFrom(disk, dir, k) ==
  IF k > Len(NameOrder) THEN <<>>
  ELSE (IF Append(dir, NameOrder[k]) \in DOMAIN disk THEN << NameOrder[k] >> ELSE <<>>)
         \o ReadDirFrom(disk, dir, k + 1)

\* fs.readdir(current, { withFileTypes: true })
ReadDir(disk, dir) == ReadDirFrom(disk, dir, 1)

----------------------------------------------------------------------------
(* stripPath and its helpers, index.js lines 59-230 and 309-367 *)

SUPPORTED_EXTENSIONS == {".js", ".cjs", ".mjs", ".jsx", ".ts", ".tsx", ".cts", ".mts"}

\* lines 331-334
hasSupportedExtension(filePath, extensionSet) ==
  ToLowerCase(ExtName(filePath)) \in extensionSet

\* lines 345-348, for an array of strings
RECURSIVE NormalizeExtensions(_)
NormalizeExtensions(exts) ==
  IF exts = <<>> THEN <<>>
  ELSE LET ext == ToLowerCase(Trim(Head(exts)))
       IN (IF ext = "" THEN <<>> ELSE << WithDot(ext) >>)
            \o NormalizeExtensions(Tail(exts))

\* lines 336-355; the extensions option is undefined or an array
buildExtensionSet(extensions) ==
  IF ~extensions.defined THEN [err |-> "", set |-> SUPPORTED_EXTENSIONS]
  ELSE LET normalized == NormalizeExtensions(extensions.value)
       IN IF Len(normalized) = 0 THEN [err |-> "noExtensions", set |-> {}]
          ELSE [err |-> "", set |-> { normalized[i] : i \in 1..Len(normalized) }]

\* lines 357-367
createEmptySummary(target, outputBase) ==
  [target |-> target, outputBase |-> outputBase, filesScanned |-> 0,
   filesChanged |-> 0, commentsRemoved |-> 0, bytesRemoved |-> 0, results |-> <<>>]

\* lines 163-173: the entries of one directory
RECURSIVE ScanEntries(_, _, _, _, _, _)
ScanEntries(disk, current, entries, queue, collected, extensionSet) ==
  IF entries = <<>> THEN [queue |-> queue, collected |-> collected]
  ELSE LET resolved == Append(current, Head(entries))
           kind == disk[resolved].kind
           rest == Tail(entries)
       IN IF kind = "symlink"
            THEN ScanEntries(disk, current, rest, queue, collected, extensionSet)
          ELSE IF kind = "dir"
            THEN ScanEntries(disk, current, rest, Append(queue, resolved), collected,
                             extensionSet)
          ELSE IF kind = "file" /\ hasSupportedExtension(<< Head(entries) >>, extensionSet)
            THEN ScanEntries(disk, current, rest, queue, Append(collected, resolved),
                             extensionSet)
          ELSE ScanEntries(disk, current, rest, queue, collected, extensionSet)

\* lines 159-174: queue.pop() takes the last directory pushed
RECURSIVE GatherLoop(_, _, _, _)
GatherLoop(disk, queue, collected, extensionSet) ==
  IF queue = <<>> THEN collected
  ELSE LET current == queue[Len(queue)]
           r == ScanEntries(disk, current, ReadDir(disk, current),
                            SubSeq(queue, 1, Len(queue) - 1), collected, extensionSet)
       IN GatherLoop(disk, r.queue, r.collected, extensionSet)

\* lines 155-177
gatherFiles(disk, dirPath, extensionSet) ==
  GatherLoop(disk, << dirPath >>, <<>>, extensionSet)

\* lines 309-329
resolveOutputForFile(disk, filePath, outPath) ==
  IF ~outPath.defined
    THEN [err |-> "", outputPath |-> filePath, alwaysWrite |-> FALSE]
  ELSE LET resolvedOut == outPath.value
           outStats == statIfExists(disk, resolvedOut)
           treatAsDirectory == IF outStats.exists THEN outStats.node.kind = "dir"
                               ELSE ExtName(resolvedOut) = ""
       IN IF outStats.err # ""
            THEN [err |-> outStats.err, outputPath |-> filePath, alwaysWrite |-> FALSE]
          ELSE IF treatAsDirectory
            THEN [err |-> "", outputPath |-> Join(resolvedOut, << Basename(filePath) >>),
                  alwaysWrite |-> TRUE]
          ELSE [err |-> "", outputPath |-> resolvedOut, alwaysWrite |-> FALSE]

\* variant of lines 140-141: the output directory is not given the structure
\* of the source tree, every file goes directly under it
DirectoryJobFlat(dirPath, outputBase, filePath) ==
  LET destination == IF outputBase.defined
                       THEN Join(outputBase.value, << Basename(filePath) >>)
                     ELSE filePath
  IN [inputPath |-> filePath, outputPath |-> destination,
      alwaysWrite |-> (outputBase.defined /\ destination # filePath)]

\* lines 140-151: the call of processFile for one gathered file
DirectoryJob(dirPath, outputBase, filePath) ==
  LET relative == Relative(dirPath, filePath)
      destination == IF outputBase.defined THEN Join(outputBase.value, relative)
                     ELSE filePath
  IN [inputPath |-> filePath, outputPath |-> destination,
      alwaysWrite |-> (outputBase.defined /\ destination # filePath)]

\* lines 131-152: the check of the output path, then the calls to make
processDirectory(disk, dirPath, outputBase, extensionSet) ==
  LET existing == statIfExists(disk, outputBase.value)
      files == gatherFiles(disk, dirPath, extensionSet)
  IN IF outputBase.defined /\ existing.err # ""
       THEN [err |-> existing.err, pending |-> <<>>]
     ELSE IF outputBase.defined /\ existing.exists /\ existing.node.kind # "dir"
       THEN [err |-> "outputMustBeDirectory", pending |-> <<>>]
     ELSE [err |-> "",
           pending |-> [i \in 1..Len(files) |->
                          DirectoryJob(dirPath, outputBase, files[i])]]

\* lines 100-114: the checks for a single file, then the call to make
processSingleFile(disk, resolvedTarget, outputBase, extensionSet) ==
  LET outInfo == resolveOutputForFile(disk, resolvedTarget, outputBase)
  IN IF ~hasSupportedExtension(resolvedTarget, extensionSet)
       THEN [err |-> "unsupportedExtension", pending |-> <<>>]
     ELSE IF outInfo.err # "" THEN [err |-> outInfo.err, pending |-> <<>>]
     ELSE [err |-> "",
           pending |-> << [inputPath |-> resolvedTarget,
                           outputPath |-> outInfo.outputPath,
                           alwaysWrite |-> outInfo.alwaysWrite] >>]

NoSummary == None(createEmptySummary(<<>>, None(<<>>)))

\* line 72
Refused(opts) == ~opts.dryRun /\ ~opts.overwrite /\ ~opts.outPath.defined

\* lines 59-117, up to the first call of processFile: the error thrown, or
\* the summary created and the calls of processFile to make
stripPathEntry(disk, target, opts) ==
  LET stats == Stat(disk, target.value)
      extensionSet == buildExtensionSet(opts.extensions)
      outputBase == opts.outPath
      created == Some(createEmptySummary(target.value, outputBase))
      jobs == IF stats.node.kind = "dir"
                THEN processDirectory(disk, target.value, outputBase, extensionSet.set)
              ELSE processSingleFile(disk, target.value, outputBase, extensionSet.set)
  IN IF ~target.defined
       THEN [err |-> "pathRequired", summary |-> NoSummary, pending |-> <<>>]
     ELSE IF Refused(opts)
       THEN [err |-> "refusingToModify", summary |-> NoSummary, pending |-> <<>>]
     ELSE IF stats.err = "ENOENT"
       THEN [err |-> "pathNotFound", summary |-> NoSummary, pending |-> <<>>]
     ELSE IF stats.err # ""
       THEN [err |-> stats.err, summary |-> NoSummary, pending |-> <<>>]
     ELSE IF extensionSet.err # ""
       THEN [err |-> extensionSet.err, summary |-> NoSummary, pending |-> <<>>]
     ELSE IF stats.node.kind \notin {"dir", "file"}
       THEN [err |-> "neitherFileNorDirectory", summary |-> created, pending |-> <<>>]
     ELSE [err |-> jobs.err, summary |-> created, pending |-> jobs.pending]

\* variant of line 197: a file bound for an output directory is always written
WillWriteAlways(dryRun, sameDestination, changed, alwaysWrite) ==
  (~dryRun /\ (~sameDestination \/ changed)) \/ alwaysWrite

\* line 197
WillWrite(dryRun, sameDestination, changed, alwaysWrite) ==
  ~dryRun /\ (~sameDestination \/ changed \/ alwaysWrite)

\* variant of line 201: only the input file itself is protected
RefusalForInputOnly(destinationExists, overwrite, sameDestination) ==
  IF destinationExists /\ ~overwrite /\ sameDestination
    THEN "refusingToOverwrite"
    ELSE ""

\* lines 201-209: the error thrown for a destination that exists, if any
RefusalFor(destinationExists, overwrite, sameDestination) ==
  IF destinationExists /\ ~overwrite
    THEN (IF sameDestination THEN "refusingToOverwrite" ELSE "destinationExists")
    ELSE ""

\* lines 215-219
CountComments(sum, stripped) ==
  IF stripped.commentCount > 0
    THEN [sum EXCEPT !.filesChanged = @ + 1,
                     !.commentsRemoved = @ + stripped.commentCount,
                     !.bytesRemoved = @ + stripped.removedChars]
    ELSE sum

\* lines 221-229
PushResult(sum, job, stripped, changed, willWrite) ==
  [sum EXCEPT !.results =
     Append(@, [inputPath |-> job.inputPath, outputPath |-> job.outputPath,
                commentCount |-> stripped.commentCount,
                removedChars |-> stripped.removedChars,
                removedRanges |-> stripped.removedRanges,
                changed |-> changed, wroteFile |-> willWrite])]

\* lines 179-230: one call of processFile, for the outcome `parse` of the
\* parse loop of stripCommentsFromCode on the text read (a tree, or the error
\* of lines 259-263).  Gives the error thrown, if any, and the file system,
\* the summary and the log of fs.writeFile calls it leaves.
processFile(disk, job, opts, sum, log, parse) ==
  LET scanned == [sum EXCEPT !.filesScanned = @ + 1]
      source == disk[job.inputPath].text
      stripped == ResultForAst(source, parse.ast)
      changed == stripped.code # source
      destPath == job.outputPath
      sameDestination == destPath = job.inputPath
      willWrite == WillWrite(opts.dryRun, sameDestination, changed, job.alwaysWrite)
      destination == pathExists(disk, destPath)
      refusal == RefusalFor(destination.exists, opts.overwrite, sameDestination)
      made == ensureDir(disk, Dirname(destPath))
      wrote == WriteFile(made.disk, destPath, stripped.code)
      finished == PushResult(CountComments(scanned, stripped), job, stripped, changed,
                             willWrite)
  IN IF ~parse.ok
       THEN [err |-> "failedToParse", disk |-> disk, summary |-> scanned, written |-> log]
     ELSE IF ~willWrite
       THEN [err |-> "", disk |-> disk, summary |-> finished, written |-> log]
     ELSE IF destination.err # ""
       THEN [err |-> destination.err, disk |-> disk, summary |-> scanned, written |-> log]
     ELSE IF refusal # ""
       THEN [err |-> refusal, disk |-> disk, summary |-> scanned, written |-> log]
     ELSE IF made.err # ""
       THEN [err |-> made.err, disk |-> disk, summary |-> scanned, written |-> log]
     ELSE IF wrote.err # ""
       THEN [err |-> wrote.err, disk |-> made.disk, summary |-> scanned,
             written |-> log \cup {destPath}]
     ELSE [err |-> "", disk |-> wrote.disk, summary |-> finished,
           written |-> log \cup {destPath}]

----------------------------------------------------------------------------
(* State *)

VARIABLES
  pc,            \* position in stripCommentsFromCode / removeRanges
  code,          \* the text passed in (source of removeRanges)
  codeIsString,  \* typeof code === 'string'
  parserOptions, \* [filename, plugins], each possibly undefined
  filename,      \* line 237
  pluginSets,    \* line 239
  attempt,       \* index of the plugin set the loop of line 243 is at
  ast,           \* line 240
  lastError,     \* line 241
  tried,         \* the calls of parser.parse so far: [plugins, ok], in order
  parserError,   \* the message thrown by the latest call of parser.parse, if it threw
  ranges,        \* the ranges handed to removeRanges
  result,        \* the value returned
  thrown,        \* the error thrown
  ppc,           \* position in stripPath
  fs,            \* the file system: the node at every path that exists
  targetPath,    \* first argument of stripPath, possibly missing
  options,       \* [dryRun, overwrite, outPath, extensions]
  summary,       \* the summary object of line 88, once created
  pending,       \* the calls of processFile still to make, in order
  written,       \* the paths fs.writeFile has been called with
  failure        \* the error stripPath threw

stripVars == << pc, code, codeIsString, parserOptions, filename, pluginSets, attempt,
                ast, lastError, tried, parserError, ranges, result, thrown >>

pathVars == << ppc, fs, targetPath, options, summary, pending, written, failure >>

vars == << stripVars, pathVars >>

----------------------------------------------------------------------------
(* Input domains *)

RECURSIVE SeqsUpTo(_, _)
SeqsUpTo(S, k) ==
  IF k = 0 THEN { <<>> }
  ELSE LET shorter == SeqsUpTo(S, k - 1)
       IN shorter \cup { Append(q, x) : q \in { r \in shorter : Len(r) = k - 1 }, x \in S }

Sources == SeqsUpTo(Alphabet, MaxLen)
DistinctSources == SeqsUpTo(DistinctAlphabet, MaxLen)

\* a comment bound the parser may report for a text of length len
BoundsFor(len) == { Num(k) : k \in 0..len } \cup { Undef }
CommentsFor(len) == [start : BoundsFor(len), end : BoundsFor(len)]

\* the trees parser.parse may return for a text: a comments array with bounds
\* inside the text, or a tree whose comments property is not an array
AstsWith(text, maxComments) ==
  { [commentsIsArray |-> TRUE, comments |-> cs] :
      cs \in SeqsUpTo(CommentsFor(Len(text)), maxComments) }
  \cup { [commentsIsArray |-> FALSE, comments |-> <<>>] }

\* the trees explored for a call of stripCommentsFromCode: up to MaxComments
\* comments under a plugin set the caller supplies, up to MaxSearchComments
\* under a set of the default search
AstsFor(text, opts) ==
  AstsWith(text, IF opts.plugins.defined THEN MaxComments ELSE MaxSearchComments)

CustomPluginSets == { <<"typescript">> }

ParserOptions ==
  [ filename : { Some(f) : f \in FileNames } \cup { None("") },
    plugins  : { Some(p) : p \in CustomPluginSets } \cup { None(<<>>) } ]

NoAst == None([commentsIsArray |-> FALSE, comments |-> <<>>])
NoResult == None(EmptyResult(<<>>))
NoError == None(<<>>)

----------------------------------------------------------------------------
(* stripCommentsFromCode as a state machine *)

\* stripPath is not running
PathIdle ==
  /\ ppc = "idle"
  /\ fs = << >>
  /\ targetPath = None(<<>>)
  /\ options = [dryRun |-> FALSE, overwrite |-> FALSE, outPath |-> None(<<>>),
                extensions |-> None(<<>>)]
  /\ summary = NoSummary
  /\ pending = <<>>
  /\ written = {}
  /\ failure = ""

Init ==
  /\ PathIdle
  /\ pc = "start"
  /\ codeIsString \in BOOLEAN
  /\ code \in IF codeIsString THEN Sources ELSE { <<>> }
  /\ parserOptions \in ParserOptions
  /\ filename = ""
  /\ pluginSets = <<>>
  /\ attempt = 0
  /\ ast = NoAst
  /\ lastError = None("")
  /\ tried = <<>>
  /\ parserError = None("")
  /\ ranges = <<>>
  /\ result = NoResult
  /\ thrown = NoError

\* lines 233-235
ThrowTypeError ==
  /\ pc = "start"
  /\ ~codeIsString
  /\ thrown' = Some(<<"Code must be a string.">>)
  /\ pc' = "threwTypeError"
  /\ UNCHANGED << code, codeIsString, parserOptions, filename, pluginSets, attempt,
                  ast, lastError, tried, parserError, ranges, result >>
  /\ UNCHANGED pathVars

\* lines 237-241
Enter ==
  /\ pc = "start"
  /\ codeIsString
  /\ filename' = FilenameOf(parserOptions)
  /\ pluginSets' = PluginSetsOf(parserOptions)
  /\ attempt' = 1
  /\ pc' = "loop"
  /\ UNCHANGED << code, codeIsString, parserOptions, ast, lastError, tried, parserError,
                  ranges, result, thrown >>
  /\ UNCHANGED pathVars

\* line 243: after an iteration that did not break the loop moves to the next
\* plugin set, or ends when there is none
AfterFailure(i, sets) ==
  [pc |-> IF i + 1 > Len(sets) THEN "afterLoop" ELSE "loop", attempt |-> i + 1]

\* variant of line 253: the break is missing
AfterSuccessNoBreak(i, sets) == AfterFailure(i, sets)

\* line 253: break leaves the loop at the current plugin set
AfterSuccess(i, sets) == [pc |-> "afterLoop", attempt |-> i]

\* variant of line 255: the first error is kept
KeepFirstError(previous, message) ==
  IF previous.defined THEN previous ELSE Some(message)

\* line 255: lastError = error
KeepError(previous, message) == Some(message)

\* lines 244-253: parser.parse returns a tree, the loop breaks
ParseSucceeds ==
  /\ pc = "loop"
  /\ attempt <= Len(pluginSets)
  /\ \E a \in AstsFor(code, parserOptions) : ast' = Some(a)
  /\ tried' = Append(tried, [plugins |-> pluginSets[attempt], ok |-> TRUE])
  /\ parserError' = None("")
  /\ pc' = AfterSuccess(attempt, pluginSets).pc
  /\ attempt' = AfterSuccess(attempt, pluginSets).attempt
  /\ UNCHANGED << code, codeIsString, parserOptions, filename, pluginSets,
                  lastError, ranges, result, thrown >>
  /\ UNCHANGED pathVars

\* lines 244-256: parser.parse throws, the error is kept and the loop goes on
ParseFails ==
  /\ pc = "loop"
  /\ attempt <= Len(pluginSets)
  /\ \E m \in Messages :
       /\ parserError' = Some(m)
       /\ lastError' = KeepError(lastError, m)
  /\ tried' = Append(tried, [plugins |-> pluginSets[attempt], ok |-> FALSE])
  /\ pc' = AfterFailure(attempt, pluginSets).pc
  /\ attempt' = AfterFailure(attempt, pluginSets).attempt
  /\ UNCHANGED << code, codeIsString, parserOptions, filename, pluginSets, ast,
                  ranges, result, thrown >>
  /\ UNCHANGED pathVars

\* lines 259-263
ThrowParseError ==
  /\ pc = "afterLoop"
  /\ ~ast.defined
  /\ thrown' = Some(ParseErrorMessage(filename, lastError))
  /\ pc' = "threwParseError"
  /\ UNCHANGED << code, codeIsString, parserOptions, filename, pluginSets, attempt,
                  ast, lastError, tried, parserError, ranges, result >>
  /\ UNCHANGED pathVars

\* lines 265-273
ReturnUnchanged ==
  /\ pc = "afterLoop"
  /\ ast.defined
  /\ NoComments(CommentsOf(ast.value))
  /\ result' = Some(EmptyResult(code))
  /\ pc' = "returnedUnchanged"
  /\ UNCHANGED << code, codeIsString, parserOptions, filename, pluginSets, attempt,
                  ast, lastError, tried, parserError, ranges, thrown >>
  /\ UNCHANGED pathVars

\* lines 275-287
EraseAndReturn ==
  /\ pc = "afterLoop"
  /\ ast.defined
  /\ ~NoComments(CommentsOf(ast.value))
  /\ ranges' = NormalizeRanges(CommentsOf(ast.value))
  /\ result' = Some(ErasedResult(code, CommentsOf(ast.value)))
  /\ pc' = "returnedErased"
  /\ UNCHANGED << code, codeIsString, parserOptions, filename, pluginSets, attempt,
                  ast, lastError, tried, parserError, thrown >>
  /\ UNCHANGED pathVars

Next ==
  \/ ThrowTypeError
  \/ Enter
  \/ ParseSucceeds
  \/ ParseFails
  \/ ThrowParseError
  \/ ReturnUnchanged
  \/ EraseAndReturn

Spec == Init /\ [][Next]_vars

----------------------------------------------------------------------------
(* removeRanges on its own: any source, any list of numeric ranges *)

EraserBounds == { Num(k) : k \in 0..(MaxLen + 1) }
EraserRanges == SeqsUpTo([start : EraserBounds, end : EraserBounds], MaxRanges)

InitEraser ==
  /\ PathIdle
  /\ pc = "removeRanges"
  /\ codeIsString = TRUE
  /\ code \in DistinctSources
  /\ ranges \in EraserRanges
  /\ parserOptions = [filename |-> None(""), plugins |-> None(<<>>)]
  /\ filename = ""
  /\ pluginSets = <<>>
  /\ attempt = 0
  /\ ast = NoAst
  /\ lastError = None("")
  /\ tried = <<>>
  /\ parserError = None("")
  /\ result = NoResult
  /\ thrown = NoError

\* a call of removeRanges(code, ranges); the result keeps the shape of
\* stripCommentsFromCode's so that one variable holds both
RemoveRangesCall ==
  /\ pc = "removeRanges"
  /\ LET r == removeRanges(code, ranges)
     IN result' = Some([code |-> r.output, commentCount |-> Len(ranges),
                        removedChars |-> r.removed, removedRanges |-> ranges])
  /\ pc' = "removed"
  /\ UNCHANGED << code, codeIsString, parserOptions, filename, pluginSets, attempt,
                  ast, lastError, tried, parserError, ranges, thrown >>
  /\ UNCHANGED pathVars

NextEraser == RemoveRangesCall

SpecEraser == InitEraser /\ [][NextEraser]_vars

----------------------------------------------------------------------------
(* stripPath as a state machine: the entry, then one step for every call   *)
(* of processFile, then the return of the summary                          *)

\* the texts of the files of the source tree
FileTexts == { <<"a">>, <<"a", "b">> }

SrcDir == << "src" >>
FileA == << "src", "a.js" >>
FileB == << "src", "sub", "B.TS" >>

\* the source tree: two files with supported extensions, one of them in a
\* subdirectory, a symbolic link, a text file, and a node that is neither a
\* file nor a directory next to the tree
SourceTree(textA) ==
  [p \in { SrcDir, FileA, << "src", "l.js" >>, << "src", "n.txt" >>,
           << "src", "sub" >>, FileB, << "dev" >> } |->
     CASE p = FileA -> FileNode(textA)
       [] p = FileB -> FileNode(<< "a", "b" >>)
       [] p = << "src", "n.txt" >> -> FileNode(<< "a" >>)
       [] p = << "src", "l.js" >> -> SymlinkNode
       [] p = << "dev" >> -> OtherNode
       [] OTHER -> DirNode]

\* what is at the output paths before the call: nothing, a file at /out, an
\* empty directory, a copy of the subdirectory only, a copy of the tree, or
\* nothing at /out and a file at /o.js
OutShapes == {"absent", "file", "emptyDir", "partial", "full", "outFile"}

OutTree(shape) ==
  CASE shape = "absent" -> << >>
    [] shape = "outFile" -> (<< "o.js" >> :> FileNode(<< "b" >>))
    [] shape = "file" -> (<< "out" >> :> FileNode(<< "b" >>))
    [] shape = "emptyDir" -> (<< "out" >> :> DirNode)
    [] shape = "partial" ->
         (<< "out" >> :> DirNode) @@ (<< "out", "sub" >> :> DirNode)
           @@ (<< "out", "sub", "B.TS" >> :> FileNode(<< "b" >>))
    [] shape = "full" ->
         (<< "out" >> :> DirNode) @@ (<< "out", "a.js" >> :> FileNode(<< "b" >>))
           @@ (<< "out", "sub" >> :> DirNode)
           @@ (<< "out", "sub", "B.TS" >> :> FileNode(<< "b" >>))

Disks ==
  { SourceTree(textA) @@ OutTree(shape) : textA \in FileTexts, shape \in OutShapes }

Targets ==
  { None(<<>>), Some(SrcDir), Some(FileA), Some(<< "src", "n.txt" >>),
    Some(<< "missing" >>), Some(<< "dev" >>) }

OutPaths ==
  { None(<<>>), Some(<< "out" >>), Some(<< "out", "sub" >>), Some(<< "o.js" >>),
    Some(SrcDir), Some(FileA), Some(<< "src", "sub" >>) }

ExtensionOptions == { None(<<>>), Some(<< " TXT" >>), Some(<< " " >>) }

\* the outcomes of the parse loop for a text: no plugin set parses it, or a tree
ParseOutcomes(text) ==
  { [ok |-> FALSE, ast |-> NoAst.value] }
    \cup { [ok |-> TRUE, ast |-> a] : a \in AstsWith(text, MaxFileComments) }

\* stripCommentsFromCode is not running on its own
StripIdle ==
  /\ pc = "idle"
  /\ code = <<>>
  /\ codeIsString = TRUE
  /\ parserOptions = [filename |-> None(""), plugins |-> None(<<>>)]
  /\ filename = ""
  /\ pluginSets = <<>>
  /\ attempt = 0
  /\ ast = NoAst
  /\ lastError = None("")
  /\ tried = <<>>
  /\ parserError = None("")
  /\ ranges = <<>>
  /\ result = NoResult
  /\ thrown = NoError

InitPath ==
  /\ StripIdle
  /\ ppc = "start"
  /\ fs \in Disks
  /\ targetPath \in Targets
  /\ options \in [dryRun : BOOLEAN, overwrite : BOOLEAN, outPath : OutPaths,
                  extensions : ExtensionOptions]
  /\ summary = NoSummary
  /\ pending = <<>>
  /\ written = {}
  /\ failure = ""

\* lines 59-117, up to the first call of processFile
StripPathCall ==
  /\ ppc = "start"
  /\ LET r == stripPathEntry(fs, targetPath, options)
     IN /\ summary' = r.summary
        /\ pending' = r.pending
        /\ failure' = r.err
        /\ ppc' = IF r.err # "" THEN "threw" ELSE "processing"
  /\ UNCHANGED << fs, targetPath, options, written >>
  /\ UNCHANGED stripVars

\* lines 179-230: the next call of processFile
ProcessFile ==
  /\ ppc = "processing"
  /\ pending # <<>>
  /\ \E parse \in ParseOutcomes(fs[Head(pending).inputPath].text) :
       LET r == processFile(fs, Head(pending), options, summary.value, written, parse)
       IN /\ fs' = r.disk
          /\ summary' = Some(r.summary)
          /\ written' = r.written
          /\ failure' = r.err
          /\ ppc' = IF r.err # "" THEN "threw" ELSE "processing"
          /\ pending' = IF r.err # "" THEN pending ELSE Tail(pending)
  /\ UNCHANGED << targetPath, options >>
  /\ UNCHANGED stripVars

\* line 119
ReturnSummary ==
  /\ ppc = "processing"
  /\ pending = <<>>
  /\ ppc' = "returned"
  /\ UNCHANGED << fs, targetPath, options, summary, pending, written, failure >>
  /\ UNCHANGED stripVars

NextPath ==
  \/ StripPathCall
  \/ ProcessFile
  \/ ReturnSummary

SpecPath == InitPath /\ [][NextPath]_vars

----------------------------------------------------------------------------
(* Vocabulary of the properties.  These definitions state what the        *)
(* specification of the program says; none of them is used by the model.   *)

IsNumber(v) == v.t = "number"
WellFormed(r) == IsNumber(r.start) /\ IsNumber(r.end) /\ r.start.n < r.end.n
AllWellFormed(rs) == \A i \in 1..Len(rs) : WellFormed(rs[i])
SortedByStart(rs) ==
  \A i, j \in 1..Len(rs) : i < j => rs[i].start.n <= rs[j].start.n
NoRepeat(text) == \A i, j \in 1..Len(text) : text[i] = text[j] => i = j

\* the end of the last range excised among the first k ranges, 0 if none:
\* a range is excised iff it does not start before that position
RECURSIVE ExcisedEnd(_, _)
ExcisedEnd(rs, k) ==
  IF k = 0 THEN 0
  ELSE IF rs[k].start.n >= ExcisedEnd(rs, k - 1) THEN rs[k].end.n
       ELSE ExcisedEnd(rs, k - 1)

Excised(rs) == { i \in 1..Len(rs) : rs[i].start.n >= ExcisedEnd(rs, i - 1) }

\* position p (counted from 1) of the text lies in an excised range
InExcised(rs, p) ==
  \E i \in Excised(rs) : rs[i].start.n < p /\ p <= rs[i].end.n

\* the text without the characters of the excised ranges, order kept
RECURSIVE KeptFrom(_, _, _)
KeptFrom(text, rs, p) ==
  IF p > Len(text) THEN <<>>
  ELSE (IF InExcised(rs, p) THEN <<>> ELSE << text[p] >>) \o KeptFrom(text, rs, p + 1)

KeptText(text, rs) == KeptFrom(text, rs, 1)

RECURSIVE SumOfLengths(_, _)
SumOfLengths(rs, idx) ==
  IF idx = {} THEN 0
  ELSE LET i == CHOOSE x \in idx : TRUE
       IN (rs[i].end.n - rs[i].start.n) + SumOfLengths(rs, idx \ {i})

\* the well-formed comments of a list, order kept
WellFormedOnly(comments) == SelectSeq(comments, WellFormed)

Returned == pc \in {"returnedUnchanged", "returnedErased"}

----------------------------------------------------------------------------
(* Properties of stripCommentsFromCode and removeRanges *)

\* C1 (length law): whenever stripCommentsFromCode returns, the length of the
\* returned code plus removedChars is the length of the source text, also
\* when ranges were skipped as overlapping.
LengthLaw ==
  Returned => Len(result.value.code) + result.value.removedChars = Len(code)

\* a return after erasing where an overlapping range was skipped
LengthLawWitness ==
  /\ pc = "returnedErased"
  /\ Cardinality(Excised(ranges)) < Len(ranges)
  /\ result.value.removedChars > 0

OverlapSafety ==
  (pc = "removed" /\ AllWellFormed(ranges) /\ SortedByStart(ranges))
    => /\ \A k \in 1..Len(ranges) :
            LET before == RemoveLoop(code, ranges, k - 1)
                after == RemoveLoop(code, ranges, k)
            IN /\ after.cursor >= before.cursor
               /\ ranges[k].start.n < before.cursor => after = before
       /\ result.value.removedChars = SumOfLengths(ranges, Excised(ranges))
       /\ NoRepeat(code) => NoRepeat(result.value.code)
       /\ Len(result.value.code) >= 0
       /\ Len(result.value.code) <= Len(code)

\* overlapping ranges, the second one skipped, on a text of distinct characters
OverlapSafetyWitness ==
  /\ pc = "removed"
  /\ AllWellFormed(ranges) /\ SortedByStart(ranges)
  /\ Len(ranges) = 2
  /\ ranges[2].start.n < ranges[1].end.n
  /\ Excised(ranges) = {1}
  /\ NoRepeat(code) /\ Len(code) >= 2

\* C4 as stated (malformed ranges are dropped inside removeRanges): given the
\* sorted ranges of the comments the parser returned, malformed ones included
\* (numeric bounds, start not less than end), removeRanges gives the output
\* and the count it gives without them.
EraserDropsMalformed ==
  LET unfiltered == SortRanges(MapRanges(CommentsOf(ast.value)))
      given == removeRanges(code, unfiltered)
      clean == removeRanges(code, WellFormedOnly(unfiltered))
  IN (/\ pc = "returnedErased"
      /\ \A i \in 1..Len(unfiltered) :
           IsNumber(unfiltered[i].start) /\ IsNumber(unfiltered[i].end))
       => /\ given.output = clean.output
          /\ given.removed = clean.removed

\* C4 as amended: stripCommentsFromCode drops the malformed comments before it
\* calls removeRanges, which gets well-formed ranges only; the result is the
\* one for the comment list without them, and is no longer than the source.
MalformedDroppedBeforeEraser ==
  pc = "returnedErased"
    => /\ AllWellFormed(ranges)
       /\ Len(ranges) = Len(WellFormedOnly(CommentsOf(ast.value)))
       /\ result.value =
            ErasedResult(code, WellFormedOnly(CommentsOf(ast.value)))
       /\ result.value.code = KeptText(code, ranges)
       /\ Len(result.value.code) <= Len(code)

\* a comment list with a malformed and a well-formed comment was stripped
MalformedDroppedWitness ==
  /\ pc = "returnedErased"
  /\ \E i \in 1..Len(ast.value.comments) : ~WellFormed(ast.value.comments[i])
  /\ \E i \in 1..Len(ast.value.comments) : WellFormed(ast.value.comments[i])
  /\ result.value.removedChars > 0

ZeroCommentShortCircuit ==
  (Returned /\ CommentsOf(ast.value) = <<>>)
    => /\ pc = "returnedUnchanged"
       /\ result.value.code = code
       /\ result.value.commentCount = 0
       /\ result.value.removedChars = 0
       /\ result.value.removedRanges = <<>>

\* the early return was taken on a non-empty text
ZeroCommentWitness ==
  /\ pc = "returnedUnchanged"
  /\ ast.value.commentsIsArray
  /\ Len(code) = MaxLen

\* the default attempt list as the specification describes it: for each of
\* the two decorator conventions the four language combinations, then the
\* common plugins alone
ExpectedDefaultSets ==
  [k \in 1..9 |->
     IF k = 9 THEN COMMON_PLUGINS
     ELSE LANGUAGE_PLUGIN_SETS[((k - 1) % 4) + 1]
            \o << DECORATOR_PLUGINS[((k - 1) \div 4) + 1] >> \o COMMON_PLUGINS]

ExpectedAttemptList ==
  IF parserOptions.plugins.defined THEN << parserOptions.plugins.value >>
  ELSE ExpectedDefaultSets

Terminal ==
  pc \in {"threwTypeError", "threwParseError", "returnedUnchanged", "returnedErased"}

\* C7 (ordered first-match-wins search): the attempt list is the supplied set
\* alone, or the 9 default sets; parser.parse is called with the sets of the
\* list in list order, only the last call made can have succeeded, the tree
\* used is that of this call, and the search ends only on a success or when
\* the list is exhausted.
OrderedFirstMatch ==
  pc \notin {"start", "threwTypeError"}
    => /\ pluginSets = ExpectedAttemptList
       /\ Len(tried) <= Len(pluginSets)
       /\ \A i \in 1..Len(tried) :
            /\ tried[i].plugins = pluginSets[i]
            /\ tried[i].ok => i = Len(tried)
       /\ ast.defined <=> (tried # <<>> /\ tried[Len(tried)].ok)
       /\ pc = "loop" => (~ast.defined /\ Len(tried) = attempt - 1)
       /\ pc # "loop" => (ast.defined \/ Len(tried) = Len(pluginSets))

\* the default search succeeded at its third set: two calls failed, none of
\* the six later sets was tried
OrderedFirstMatchWitness ==
  /\ Returned
  /\ ~parserOptions.plugins.defined
  /\ Len(pluginSets) = 9
  /\ Len(tried) = 3
  /\ tried[3].ok

\* C8 (exhaustion failure): the call ends with the parse error iff every set
\* of the attempt list was tried and failed; the message is "Failed to parse
\* <filename>: <message>" with the message of the last call of the parser and
\* the supplied filename; the sets tried and the result do not depend on the
\* filename.
ExhaustionFailure ==
  /\ (Terminal /\ codeIsString)
       => ((pc = "threwParseError")
             <=> (/\ Len(tried) = Len(ExpectedAttemptList)
                  /\ \A i \in 1..Len(tried) : ~tried[i].ok))
  /\ pc = "threwParseError"
       => /\ parserError.defined
          /\ thrown = Some(<< "Failed to parse ",
                              IF parserOptions.filename.defined
                                THEN parserOptions.filename.value ELSE "unknown",
                              ": ", parserError.value >>)
  /\ \A i \in 1..Len(tried) : tried[i].plugins = ExpectedAttemptList[i]
  /\ Returned => result = Some(ResultForAst(code, ast.value))

\* all 9 default sets failed for a named file
ExhaustionFailureWitness ==
  /\ pc = "threwParseError"
  /\ Len(tried) = 9
  /\ parserOptions.filename.defined
  /\ lastError.defined

----------------------------------------------------------------------------
(* Properties of stripPath *)

Last(q) == q[Len(q)]

RECURSIVE SumOfField(_, _)
SumOfField(results, k) ==
  IF k = 0 THEN [comments |-> 0, chars |-> 0]
  ELSE LET rest == SumOfField(results, k - 1)
       IN [comments |-> rest.comments + results[k].commentCount,
           chars |-> rest.chars + results[k].removedChars]

IsUnder(dir, p) == Len(p) > Len(dir) /\ SubSeq(p, 1, Len(dir)) = dir

\* the files stripPath has to process: the target file, or the files with a
\* supported extension under the target directory (a symbolic link is no file)
FilesToProcess ==
  LET target == targetPath.value
      extensionSet == buildExtensionSet(options.extensions).set
  IN IF fs[target].kind = "file" THEN { target }
     ELSE { p \in DOMAIN fs :
              /\ IsUnder(target, p)
              /\ fs[p].kind = "file"
              /\ ToLowerCase(ExtName(p)) \in extensionSet }

\* with dryRun the summary is the one of a run that writes: one result per
\* file scanned, none with wroteFile, and the counts of the comments found
DryRunSummary ==
  LET sum == summary.value
      results == sum.results
      totals == SumOfField(results, Len(results))
  IN /\ \A i \in 1..Len(results) : ~results[i].wroteFile
     /\ sum.filesScanned = Len(results)
     /\ sum.filesChanged =
          Cardinality({ i \in 1..Len(results) : results[i].commentCount > 0 })
     /\ sum.commentsRemoved = totals.comments
     /\ sum.bytesRemoved = totals.chars
     /\ ppc = "returned"
          => { results[i].inputPath : i \in 1..Len(results) } = FilesToProcess

\* C9 (dry run never writes): with dryRun true no step changes the file
\* system, fs.writeFile is never called, every result has wroteFile false,
\* and the summary counts the files scanned, the files with comments, the
\* comments and the characters, whatever overwrite and outPath are.
DryRunNeverWrites ==
  /\ [][options.dryRun => fs' = fs]_vars
  /\ [](options.dryRun => written = {})
  /\ []((options.dryRun /\ ppc \in {"processing", "returned"}) => DryRunSummary)

\* a dry run over the directory, with an output directory and overwrite set,
\* returned a summary that counts comments in both files
DryRunWitness ==
  /\ options.dryRun /\ options.overwrite /\ options.outPath.defined
  /\ ppc = "returned"
  /\ targetPath = Some(SrcDir)
  /\ summary.value.filesScanned = 2
  /\ summary.value.filesChanged = 2
  /\ summary.value.bytesRemoved > 0

\* a step that replaces, removes or writes a file that exists
ReplacesExistingFile ==
  \E p \in DOMAIN fs :
    /\ fs[p].kind = "file"
    /\ \/ p \notin DOMAIN fs'
       \/ fs'[p] # fs[p]
       \/ p \in written' \ written

\* a step of processFile without overwrite whose destination exists: nothing
\* is written, and the call fails unless it had nothing to write (a dry run,
\* or the input file itself left unchanged)
FailsBeforeWriting ==
  (/\ ppc = "processing"
   /\ pending # <<>>
   /\ ~options.overwrite
   /\ Head(pending).outputPath \in DOMAIN fs)
    => /\ fs' = fs
       /\ written' = written
       /\ \/ ppc' = "threw"
          \/ LET r == Last(summary'.value.results)
             IN /\ ~r.wroteFile
                /\ options.dryRun \/ (r.outputPath = r.inputPath /\ ~r.changed)

\* C10 (overwrite gating): no step replaces a file that exists unless
\* overwrite is true; without overwrite a call of processFile whose
\* destination exists fails before writing; a call with none of dryRun,
\* overwrite and outPath is refused before any file is read or written.
OverwriteGating ==
  /\ [][ReplacesExistingFile => options.overwrite]_vars
  /\ [][FailsBeforeWriting]_vars
  /\ [][Refused(options) => fs' = fs]_vars
  /\ []((Refused(options) /\ ppc # "start")
          => /\ ppc = "threw"
             /\ failure \in {"pathRequired", "refusingToModify"}
             /\ ~summary.defined
             /\ pending = <<>>
             /\ written = {})

\* the first file was written to a new destination, the destination of the
\* second one exists and overwrite is false: the call failed there
OverwriteGatingWitness ==
  /\ ~options.overwrite
  /\ ppc = "threw"
  /\ failure = "destinationExists"
  /\ written = { << "out", "a.js" >> }
  /\ Head(pending).outputPath = << "out", "sub", "B.TS" >>

\* the path under outPath that mirrors the place of p under the target
Mirror(p) ==
  options.outPath.value \o SubSeq(p, Len(targetPath.value) + 1, Len(p))

\* the target is a directory
TargetIsDirectory ==
  /\ targetPath.defined
  /\ targetPath.value \in DOMAIN fs
  /\ fs[targetPath.value].kind = "dir"

\* stripPath returned from a directory with outPath set and dryRun false
WroteToOutput ==
  /\ ppc = "returned"
  /\ TargetIsDirectory
  /\ options.outPath.defined
  /\ ~options.dryRun

\* every result names a file written at the mirrored path under outPath
EveryResultWritten ==
  LET results == summary.value.results
  IN \A i \in 1..Len(results) :
       /\ results[i].outputPath = Mirror(results[i].inputPath)
       /\ results[i].wroteFile
       /\ results[i].outputPath \in written
       /\ results[i].outputPath \in DOMAIN fs
       /\ fs[results[i].outputPath].kind = "file"

\* every file to process that this call did not itself create has a result
EveryFileHasResult ==
  LET results == summary.value.results
  IN FilesToProcess \ written
       \subseteq { results[i].inputPath : i \in 1..Len(results) }

CopiesToMirror ==
  (/\ ppc = "processing"
   /\ pending # <<>>
   /\ ppc' = "processing"
   /\ TargetIsDirectory
   /\ options.outPath.defined
   /\ options.outPath.value # targetPath.value
   /\ ~options.dryRun)
    => LET input == Head(pending).inputPath
           r == Last(summary'.value.results)
       IN /\ r.inputPath = input
          /\ r.outputPath = Mirror(input)
          /\ r.wroteFile
          /\ Mirror(input) \in written' \ written
          /\ Mirror(input) \in DOMAIN fs'
          /\ fs'[Mirror(input)].kind = "file"
          /\ ~r.changed => fs'[Mirror(input)].text = fs[input].text
          /\ r.commentCount = 0 => ~r.changed

\* a step of processFile in place, on a file that stripping leaves
\* unchanged: nothing is written
LeavesUnchangedFile ==
  (/\ ppc = "processing"
   /\ pending # <<>>
   /\ ppc' = "processing"
   /\ \/ ~options.outPath.defined
      \/ (TargetIsDirectory /\ options.outPath.value = targetPath.value)
   /\ ~Last(summary'.value.results).changed)
    => /\ fs' = fs
       /\ written' = written
       /\ ~Last(summary'.value.results).wroteFile
       /\ Last(summary'.value.results).outputPath = Head(pending).inputPath

====
